---------------------------- MODULE Spec2Model ----------------------------
(***************************************************************************)
(* Model of the DocumentParse hybrid page-reconstruction pipeline:         *)
(*   doc_parser/src/processing.py          batch orchestrator and          *)
(*                                         markdown postprocessor          *)
(*   docling/pipeline/ocr_enhanced_pipeline.py                              *)
(*                                         layout planner, region          *)
(*                                         resolver, markdown formatter    *)
(*                                                                         *)
(* A text is a sequence of characters, each character a one-character      *)
(* string.  Text that no operation of the program inspects character by    *)
(* character (the fixed Korean message prefixes, a status name, an         *)
(* exception message) is carried as one element of the sequence.           *)
(***************************************************************************)
EXTENDS Integers, Sequences, FiniteSets, TLC

(***************************************************************************)
(* Bounds of the model.                                                    *)
(***************************************************************************)
MaxPages == 4
MaxBatch == 3
MaxPieces == 3
MaxRows == 2
MaxCols == 2
MaxIndex == 1
MaxCells == 2
MaxRegions == 2
MaxDocPages == 3

(***************************************************************************)
(* Characters and character classes.                                       *)
(***************************************************************************)
NL == "\n"
SP == " "
TAB == "\t"
\* The backquote character (a TLA+ string cannot hold it).
BQ == "BQ"
BSL == "\\"

Lower ==
  {"a","b","c","d","e","f","g","h","i","j","k","l","m",
   "n","o","p","q","r","s","t","u","v","w","x","y","z"}
Upper ==
  {"A","B","C","D","E","F","G","H","I","J","K","L","M",
   "N","O","P","Q","R","S","T","U","V","W","X","Y","Z"}
Digit == {"0","1","2","3","4","5","6","7","8","9"}

\* Python's str.strip() and the regex class \s: the whitespace characters.
IsSpace(c) == c \in {SP, NL, TAB, "\r", "\f"}

\* The regex class [A-Za-z0-9+/=].
IsB64(c) == c \in Lower \cup Upper \cup Digit \cup {"+", "/", "="}

(***************************************************************************)
(* Generic helpers on texts.                                               *)
(***************************************************************************)
\* s[i..] starts with the text p (1-based i).
StartsAt(s, i, p) ==
  /\ i + Len(p) - 1 <= Len(s)
  /\ \A k \in 1..Len(p) : s[i + k - 1] = p[k]

Drop(s, k) == SubSeq(s, k + 1, Len(s))

Contains(s, c) == \E i \in 1..Len(s) : s[i] = c

RECURSIVE LStrip(_)
LStrip(s) ==
  IF s # <<>> /\ IsSpace(s[1]) THEN LStrip(Tail(s)) ELSE s

RECURSIVE RStrip(_)
RStrip(s) ==
  IF s # <<>> /\ IsSpace(s[Len(s)]) THEN RStrip(SubSeq(s, 1, Len(s) - 1)) ELSE s

\* str.strip()
Strip(s) == RStrip(LStrip(s))

\* Index of the first occurrence of the text sep in s at or after i, 0 if none.
RECURSIVE FindFrom(_, _, _)
FindFrom(s, sep, i) ==
  IF i + Len(sep) - 1 > Len(s) THEN 0
  ELSE IF StartsAt(s, i, sep) THEN i
  ELSE FindFrom(s, sep, i + 1)

\* str.split(sep) for a non-empty separator: always at least one piece.
RECURSIVE Split(_, _)
Split(s, sep) ==
  LET i == FindFrom(s, sep, 1)
  IN  IF i = 0 THEN <<s>>
      ELSE <<SubSeq(s, 1, i - 1)>> \o Split(Drop(s, i + Len(sep) - 1), sep)

\* sep.join(parts)
RECURSIVE Join(_, _)
Join(parts, sep) ==
  IF parts = <<>> THEN <<>>
  ELSE IF Len(parts) = 1 THEN parts[1]
  ELSE parts[1] \o sep \o Join(Tail(parts), sep)

\* str.replace(old, ""): non-overlapping occurrences, left to right.
RECURSIVE Remove(_, _)
Remove(s, old) ==
  IF s = <<>> THEN <<>>
  ELSE IF StartsAt(s, 1, old) THEN Remove(Drop(s, Len(old)), old)
  ELSE <<s[1]>> \o Remove(Tail(s), old)

Rep(c, n) == [k \in 1..n |-> c]

(***************************************************************************)
(* postprocess_markdown (processing.py:12-23).                             *)
(***************************************************************************)
DataImage == <<"d","a","t","a",":","i","m","a","g","e","/">>
Base64Tag == <<";","b","a","s","e","6","4",",">>

\* The replacement text of line 13: three Hangul syllables (one element,
\* no character class of the program applies to them) and ")".
Placeholder == <<"IMG_KO", ")">>

\* Length of the longest run of characters satisfying [^;] starting at i.
RECURSIVE NotSemiRun(_, _)
NotSemiRun(s, i) ==
  IF i <= Len(s) /\ s[i] # ";" THEN 1 + NotSemiRun(s, i + 1) ELSE 0

RECURSIVE B64Run(_, _)
B64Run(s, i) ==
  IF i <= Len(s) /\ IsB64(s[i]) THEN 1 + B64Run(s, i + 1) ELSE 0

\* Length of the match of data:image/[^;]+;base64,[A-Za-z0-9+/=]+ at i, 0 if
\* none.  [^;]+ cannot cross a ';', so it ends at the first ';' after the
\* prefix; the payload class is matched greedily.
Base64MatchLen(s, i) ==
  IF ~StartsAt(s, i, DataImage) THEN 0
  ELSE LET j == i + Len(DataImage)
           t == NotSemiRun(s, j)
           k == j + t
       IN  IF t = 0 \/ ~StartsAt(s, k, Base64Tag) THEN 0
           ELSE LET p == k + Len(Base64Tag)
                    r == B64Run(s, p)
                IN  IF r = 0 THEN 0 ELSE (p + r) - i

\* Line 13: re.sub of every embedded base64 image by the placeholder.
RECURSIVE SubBase64(_)
SubBase64(s) ==
  IF s = <<>> THEN <<>>
  ELSE LET m == Base64MatchLen(s, 1)
       IN  IF m > 0 THEN Placeholder \o SubBase64(Drop(s, m))
           ELSE <<s[1]>> \o SubBase64(Tail(s))

RECURSIVE SpaceRun(_, _)
SpaceRun(s, i) ==
  IF i <= Len(s) /\ IsSpace(s[i]) THEN 1 + SpaceRun(s, i + 1) ELSE 0

\* \s*\* matched from i: the end of the match (index after it), 0 if none.
BulletEnd(s, i) ==
  LET j == i + SpaceRun(s, i)
  IN  IF StartsAt(s, j, <<"*", SP>>) THEN j + 2 ELSE 0

\* Line 14: re.sub(r'(^|\n)\s*\* ', r'\1- ', content), scanning from index i.
\* '^' matches at the start of the text only (no MULTILINE flag) and is
\* tried before the '\n' alternative.
RECURSIVE SubBulletFrom(_, _)
SubBulletFrom(s, i) ==
  IF i > Len(s) THEN <<>>
  ELSE LET viaStart == IF i = 1 THEN BulletEnd(s, 1) ELSE 0
           viaNL == IF s[i] = NL THEN BulletEnd(s, i + 1) ELSE 0
       IN  IF viaStart > 0 THEN <<"-", SP>> \o SubBulletFrom(s, viaStart)
           ELSE IF viaNL > 0 THEN <<NL, "-", SP>> \o SubBulletFrom(s, viaNL)
           ELSE <<s[i]>> \o SubBulletFrom(s, i + 1)

SubBullet(s) == SubBulletFrom(s, 1)

\* Lines 18-22 without the test for a line already wrapped.
MathLineUnguarded(line) ==
  LET s == Strip(line)
  IN  IF (Contains(s, "×") \/ Contains(s, "+")) /\ s # <<>>
      THEN <<"$">> \o s \o <<"$">>
      ELSE line

\* Lines 18-22: one line of the loop.
MathLine(line) ==
  LET s == Strip(line)
  IN  IF /\ (Contains(s, "×") \/ Contains(s, "+"))
         /\ s # <<>>
         /\ ~(s[1] = "$" /\ s[Len(s)] = "$")
      THEN <<"$">> \o s \o <<"$">>
      ELSE line

Fence == <<BQ, BQ, BQ>>

postprocess_markdown(content) ==
  LET c1 == SubBase64(content)
      c2 == SubBullet(c1)
      ls == Split(c2, <<NL>>)
      out == [k \in 1..Len(ls) |-> MathLine(ls[k])]
  IN  Strip(Remove(Join(out, <<NL>>), Fence))

(***************************************************************************)
(* State.                                                                  *)
(*   Batch orchestrator (process_pdf_batch): bpc is the position in the    *)
(*   function, converterOk / pathExists / pdfOpens / pageCount / batchSize *)
(*   its inputs, start the loop variable, results the list it builds;      *)
(*   windows and outcomes record, per call of _process_batch, the pages    *)
(*   argument and what the conversion engine did.                          *)
(*   Postprocessor: ppIn the text, ppOnce and ppTwice the transform        *)
(*   applied once and twice, ppc how far that went.                        *)
(*   Formatter: fRegion and fData the arguments of _format_as_markdown,    *)
(*   fOut what it returned, fpc whether it was called.                     *)
(*   Table resolver: tRegion and tPage the table region and the page,      *)
(*   tOut what _process_table_region did (the grid it returned, or that it *)
(*   raised), tpc whether _process_pages reached the call.                 *)
(*   converts logs the calls of converter.convert: the number of the batch *)
(*   and how many results were appended when the call was made; unclosed   *)
(*   counts the temporary sub-documents a returned _process_batch call     *)
(*   left without close().                                                 *)
(*   Page processing (_process_pages on one page): gPage the page,         *)
(*   gResponse the text the VLM answers with, gLayout the region list      *)
(*   _get_layout_from_vlm returned, gText the markdown stored for the      *)
(*   page, gpc "done" after the page was yielded and "raised" when an      *)
(*   exception left _process_pages, gCalls the calls of the OCR engine and *)
(*   the formula model made for the page's regions, in order, gConfigured  *)
(*   the prompt the pipeline was configured with, gOptions the option      *)
(*   objects in memory by reference ("shared" is self.options.vlm_options),*)
(*   gRequests the options passed with each layout request.                *)
(*   Command line entry point (main): mArg whether input_file was given,   *)
(*   mDirHasPdf whether INPUT_DIR holds a PDF, mInputExists whether the    *)
(*   chosen input path exists, mApiKey the configured OPENROUTER_API_KEY,  *)
(*   mOutDir whether OUTPUT_DIR was created, mCalled the number of calls   *)
(*   of process_pdf_batch, mWritten and mFile whether the output file was  *)
(*   written and its text, mpc where main is.                              *)
(*   Document assembly (_assemble_document): aPages the pages of the       *)
(*   conversion result, aMarkdown the text handed to the markdown backend, *)
(*   aDocPages the pages added to the final document by page number, apc   *)
(*   whether the document was assembled.                                   *)
(***************************************************************************)
VARIABLES bpc, converterOk, pathExists, pdfOpens, pageCount, batchSize,
          start, results, windows, outcomes, converts, unclosed,
          ppc, ppIn, ppOnce, ppTwice,
          fpc, fRegion, fData, fOut,
          tpc, tRegion, tPage, tOut,
          gpc, gPage, gResponse, gLayout, gText, gCalls,
          gConfigured, gOptions, gRequests,
          mpc, mArg, mDirHasPdf, mInputExists, mApiKey, mOutDir, mCalled,
          mWritten, mFile,
          apc, aPages, aMarkdown, aDocPages

batchVars == <<bpc, converterOk, pathExists, pdfOpens, pageCount, batchSize,
               start, results, windows, outcomes, converts, unclosed>>
postVars == <<ppc, ppIn, ppOnce, ppTwice>>
formatVars == <<fpc, fRegion, fData, fOut>>
tableVars == <<tpc, tRegion, tPage, tOut>>
pageVars == <<gpc, gPage, gResponse, gLayout, gText, gCalls,
              gConfigured, gOptions, gRequests>>
mainVars == <<mpc, mArg, mDirHasPdf, mInputExists, mApiKey, mOutDir, mCalled,
             mWritten, mFile>>
assembleVars == <<apc, aPages, aMarkdown, aDocPages>>
vars == <<batchVars, postVars, formatVars, tableVars, pageVars, mainVars,
          assembleVars>>
notBatch == <<postVars, formatVars, tableVars, pageVars, mainVars, assembleVars>>
notPost == <<batchVars, formatVars, tableVars, pageVars, mainVars, assembleVars>>
notFormat == <<batchVars, postVars, tableVars, pageVars, mainVars, assembleVars>>
notTable == <<batchVars, postVars, formatVars, pageVars, mainVars, assembleVars>>
notPage == <<batchVars, postVars, formatVars, tableVars, mainVars, assembleVars>>
notMain == <<postVars, formatVars, tableVars, pageVars, assembleVars>>
notAssemble == <<batchVars, postVars, formatVars, tableVars, pageVars, mainVars>>

BatchIdle ==
  /\ bpc = "idle" /\ converterOk = FALSE /\ pathExists = FALSE
  /\ pdfOpens = FALSE /\ pageCount = 0 /\ batchSize = 1
  /\ start = 0 /\ results = <<>> /\ windows = <<>> /\ outcomes = <<>>
  /\ converts = <<>> /\ unclosed = 0

PostIdle == ppc = "idle" /\ ppIn = <<>> /\ ppOnce = <<>> /\ ppTwice = <<>>

FormatIdle == fpc = "idle" /\ fRegion = <<>> /\ fData = <<>> /\ fOut = <<>>

TableIdle == tpc = "idle" /\ tRegion = <<>> /\ tPage = <<>> /\ tOut = <<>>

PageIdle ==
  /\ gpc = "idle" /\ gPage = <<>> /\ gResponse = <<>> /\ gLayout = <<>>
  /\ gText = <<>> /\ gCalls = <<>>
  /\ gConfigured = "" /\ gOptions = <<>> /\ gRequests = <<>>

MainIdle ==
  /\ mpc = "idle" /\ mArg = FALSE /\ mDirHasPdf = FALSE /\ mInputExists = FALSE
  /\ mApiKey = "" /\ mOutDir = FALSE /\ mCalled = 0
  /\ mWritten = FALSE /\ mFile = <<>>

AssembleIdle ==
  apc = "idle" /\ aPages = <<>> /\ aMarkdown = <<>> /\ aDocPages = <<>>

\* Only the component named runs; the others stay as constructed.
OthersIdle(component) ==
  /\ component = "batch" \/ BatchIdle
  /\ component = "post" \/ PostIdle
  /\ component = "format" \/ FormatIdle
  /\ component = "table" \/ TableIdle
  /\ component = "page" \/ PageIdle
  /\ component = "main" \/ MainIdle
  /\ component = "assemble" \/ AssembleIdle

(***************************************************************************)
(* Batch orchestrator (processing.py:36-89).                               *)
(***************************************************************************)
Min(a, b) == IF a < b THEN a ELSE b

\* The markdown the conversion engine exports for a converted batch.
Exports ==
  { <<"a">>, <<"*", SP, "a">>, <<"a", "+", "b">>, <<BQ, BQ, BQ, "a">> }

\* ConversionStatus members other than SUCCESS, as <<name, value>>.
FailedStatuses ==
  { <<"FAILURE", "failure">>, <<"PARTIAL_SUCCESS", "partial_success">> }

\* Messages of the exceptions the sub-document extraction or the conversion
\* may raise.
Messages == { "Failed to load page", "conversion timed out" }

\* What happens inside one _process_batch call: raisedAt is the statement of
\* the try body that raises ("none" if none does), status the
\* result.status of converter.convert, md the exported markdown.
NoOutcome == [raisedAt |-> "none", msg |-> "", status |-> <<"SUCCESS", "success">>, md |-> <<>>]

Outcomes ==
  { [NoOutcome EXCEPT !.md = m] : m \in Exports }
  \cup { [NoOutcome EXCEPT !.status = st] : st \in FailedStatuses }
  \cup { [NoOutcome EXCEPT !.raisedAt = at, !.msg = msg] :
           at \in {"import_pages", "convert"}, msg \in Messages }

Failed(oc) == oc.raisedAt # "none" \/ oc.status[1] # "SUCCESS"

\* Lines 61 and 67: the block returned for a failed batch.
Banner == <<NL, NL, "-", "-", "-", NL, NL, "#", "#", "#", SP>>
BannerEnd == <<NL, NL, "-", "-", "-", NL, NL>>
ErrorBlock(err) == Banner \o err \o BannerEnd

\* Line 59 and line 64: the fixed prefixes of the two messages (Korean
\* text, each carried as one element).
StatusPrefix == "  [batch failed]: "
ExceptionPrefix == "  [exception while processing batch]: "

\* Lines 40-67 with the except clause left out: the failure propagates.
ProcessBatchUncaught(pages, batch_num, oc) ==
  IF pages = <<>> \/ oc.raisedAt # "none"
  THEN [raised |-> TRUE, value |-> <<>>]
  ELSE IF oc.status[1] = "SUCCESS"
  THEN [raised |-> FALSE, value |-> postprocess_markdown(oc.md)]
  ELSE [raised |-> FALSE,
        value |-> ErrorBlock(<<StatusPrefix, oc.status[1], SP, "-", SP, oc.status[2]>>)]

\* _process_batch: lines 37-38 index page_numbers outside the try (an empty
\* page list raises); everything else is inside try / except Exception.
\* batch_num is only used by the commented-out lines 52-55.
_process_batch(pages, batch_num, oc) ==
  IF pages = <<>> THEN [raised |-> TRUE, value |-> <<>>]
  ELSE IF oc.raisedAt # "none"
  THEN [raised |-> FALSE, value |-> ErrorBlock(<<ExceptionPrefix, oc.msg>>)]
  ELSE IF oc.status[1] = "SUCCESS"
  THEN [raised |-> FALSE, value |-> postprocess_markdown(oc.md)]
  ELSE [raised |-> FALSE,
        value |-> ErrorBlock(<<StatusPrefix, oc.status[1], SP, "-", SP, oc.status[2]>>)]

\* Line 49 with the conversion tried again after a failure.
ConvertCallsRetry(oc) ==
  IF oc.raisedAt = "import_pages" THEN 0
  ELSE IF oc.raisedAt = "convert" \/ oc.status[1] # "SUCCESS" THEN 2
  ELSE 1

\* Lines 41-49: how many times one _process_batch call reaches
\* converter.convert: once, unless the sub-document extraction raised
\* before it.
ConvertCalls(oc) == IF oc.raisedAt = "import_pages" THEN 0 ELSE 1

\* Lines 41-46: temp_pdf.close() is the last statement of the extraction;
\* it is reached unless import_pages (or save) raised, and there is no
\* finally clause: the except clause of line 63 returns without closing.
TempClosed(oc) == oc.raisedAt # "import_pages"

\* Line 86 without the min(): the last window runs past the last page.
WindowNoMin(s, b, n) == [k \in 1..b |-> s + k - 1]

\* Line 86: list(range(start, min(start + batch_size, len(source_pdf)))).
Window(s, b, n) == [k \in 1..(Min(s + b, n) - s) |-> s + k - 1]

\* Line 87 with the result put in front of the list.
PrependResult(rs, r) == <<r>> \o rs

\* Line 87: results.append(...).
AppendResult(rs, r) == Append(rs, r)

InitBatch ==
  /\ bpc = "start"
  /\ converterOk \in BOOLEAN
  /\ pathExists \in BOOLEAN
  /\ pdfOpens \in BOOLEAN
  /\ pageCount \in 0..MaxPages
  /\ batchSize \in 1..MaxBatch
  /\ start = 0 /\ results = <<>> /\ windows = <<>> /\ outcomes = <<>>
  /\ converts = <<>> /\ unclosed = 0
  /\ OthersIdle("batch")

\* Lines 71-84: the early returns, then the empty result list.  A PDF that
\* does not open gives None; an opened PDF of no pages is falsy as well
\* (its length is 0) and takes the same return.
Enter ==
  /\ bpc = "start"
  /\ IF ~converterOk \/ ~pathExists \/ ~pdfOpens \/ pageCount = 0
     THEN bpc' = "done"
     ELSE bpc' = "loop"
  /\ UNCHANGED <<converterOk, pathExists, pdfOpens, pageCount, batchSize,
                 start, results, windows, outcomes, converts, unclosed>>
  /\ UNCHANGED notBatch

\* Lines 85-87: one iteration of the loop, the call of _process_batch
\* included.
Iterate ==
  /\ bpc = "loop"
  /\ start < pageCount
  /\ \E oc \in Outcomes :
       LET pages == Window(start, batchSize, pageCount)
           r == _process_batch(pages, (start \div batchSize) + 1, oc)
       IN  /\ windows' = Append(windows, pages)
           /\ outcomes' = Append(outcomes, oc)
           /\ IF r.raised
              THEN bpc' = "raised" /\ UNCHANGED <<results, start, converts, unclosed>>
              ELSE /\ converts' = converts \o
                        [j \in 1..ConvertCalls(oc) |->
                           [batch |-> (start \div batchSize) + 1,
                            appended |-> Len(results)]]
                   /\ unclosed' = unclosed + (IF TempClosed(oc) THEN 0 ELSE 1)
                   /\ results' = AppendResult(results, r.value)
                   /\ start' = start + batchSize
                   /\ bpc' = bpc
  /\ UNCHANGED <<converterOk, pathExists, pdfOpens, pageCount, batchSize>>
  /\ UNCHANGED notBatch

\* Line 89: the loop is exhausted, results is returned.
Return ==
  /\ bpc = "loop"
  /\ start >= pageCount
  /\ bpc' = "done"
  /\ UNCHANGED <<converterOk, pathExists, pdfOpens, pageCount, batchSize,
                 start, results, windows, outcomes, converts, unclosed>>
  /\ UNCHANGED notBatch

NextBatch == Enter \/ Iterate \/ Return

SpecBatch == InitBatch /\ [][NextBatch]_vars

(***************************************************************************)
(* Postprocessor as a pure function: the input is drawn from the texts     *)
(* made of at most MaxPieces pieces, and the transform is applied twice.   *)
(***************************************************************************)
PostPieces ==
  { Fence, <<"*", SP>>, <<"a">>, <<"+">>, <<"×">>, <<"$">>, <<NL>>, <<SP>>,
    DataImage \o <<"p", "n", "g">> \o Base64Tag, <<"Q", "U">> }

RECURSIVE Texts(_, _)
Texts(pieces, n) ==
  IF n = 0 THEN { <<>> }
  ELSE LET shorter == Texts(pieces, n - 1)
       IN  shorter \cup { t \o p : t \in shorter, p \in pieces }

InitPost ==
  /\ ppc = "input"
  /\ ppIn \in Texts(PostPieces, MaxPieces)
  /\ ppOnce = <<>> /\ ppTwice = <<>>
  /\ OthersIdle("post")

ApplyOnce ==
  /\ ppc = "input"
  /\ ppOnce' = postprocess_markdown(ppIn)
  /\ ppc' = "once"
  /\ UNCHANGED <<ppIn, ppTwice>>
  /\ UNCHANGED notPost

ApplyTwice ==
  /\ ppc = "once"
  /\ ppTwice' = postprocess_markdown(ppOnce)
  /\ ppc' = "twice"
  /\ UNCHANGED <<ppIn, ppOnce>>
  /\ UNCHANGED notPost

NextPost == ApplyOnce \/ ApplyTwice

SpecPost == InitPost /\ [][NextPost]_vars

(***************************************************************************)
(* Markdown formatter (ocr_enhanced_pipeline.py:224-253).  A region is a   *)
(* dict: a function from the keys it has to their values.                  *)
(***************************************************************************)
\* dict.get(key, default)
Get(d, key, default) == IF key \in DOMAIN d THEN d[key] ELSE default

\* Line 229 with the default level 2.
HeadingLevelDefault2(region) == Get(region, "level", 2)

\* Line 229: level = region.get("level", 1).
HeadingLevel(region) == Get(region, "level", 1)

\* Line 233: the separator the list branch splits and joins on.  The
\* source writes '\\n' in both places: backslash followed by n, two
\* characters, not the newline character.
ListSeparator == <<BSL, "n">>

NonBlank(line) == Strip(line) # <<>>

\* Line 233 for a separator sep: one "- " bullet per non-blank piece.
Bullets(data, sep) ==
  LET kept == SelectSeq(Split(data, sep), NonBlank)
  IN  Join([k \in 1..Len(kept) |-> <<"-", SP>> \o kept[k]], sep)

\* Lines 240 and 242: "| " + " | ".join(row) + " |".
PipeRow(row) == <<"|", SP>> \o Join(row, <<SP, "|", SP>>) \o <<SP, "|">>

Dashes == <<"-", "-", "-">>

\* Line 241 with one '---' per grid row instead of per column.
SeparatorPerRow(table_data) ==
  PipeRow([k \in 1..Len(table_data) |-> Dashes])

\* Line 241: one '---' per column of grid row 0.
Separator(table_data) ==
  PipeRow([k \in 1..Len(table_data[1]) |-> Dashes])

\* Lines 235-244.
FormatTable(table_data) ==
  IF table_data = <<>> THEN <<>>
  ELSE LET header == PipeRow(table_data[1])
           rest == Tail(table_data)
           body == Join([k \in 1..Len(rest) |-> PipeRow(rest[k])], <<NL>>)
       IN  header \o <<NL>> \o Separator(table_data) \o <<NL>> \o body

_format_as_markdown(region, data) ==
  LET region_type == Get(region, "type", "paragraph")
  IN  IF region_type = "heading"
      THEN Rep("#", HeadingLevel(region)) \o <<SP>> \o data
      ELSE IF region_type = "list"
      THEN Bullets(data, ListSeparator)
      ELSE IF region_type = "table"
      THEN FormatTable(data)
      ELSE IF region_type = "formula"
      THEN <<"$", "$", NL>> \o data \o <<NL, "$", "$">>
      ELSE IF region_type \in {"chart_bar", "chart_pie", "image"}
      THEN <<"!", "[">> \o data \o <<"]">>
      ELSE data

(***************************************************************************)
(* Formatter as a pure function: the region and the resolved data are      *)
(* drawn from bounded sets.                                                *)
(***************************************************************************)
HeadingLevels == 1..6

Intro == <<"I", "n", "t", "r", "o">>

PlainTexts == { <<>>, <<"a">>, Intro }

ExampleList == <<"a", NL, "b", NL, NL>>

ListContents ==
  Texts({ <<"a">>, <<"b">>, <<NL>>, <<SP>>, ListSeparator }, MaxPieces)
    \cup { ExampleList }

CellTexts == { <<>>, <<"a">>, <<"H", "1">> }

ExampleGrid == << << <<"H", "1">>, <<"H", "2">> >>, << <<"a">>, <<"b">> >> >>

\* The rectangular grids of at most MaxRows rows and MaxCols columns (every
\* grid _process_table_region builds has at least one column), the empty
\* grid and the grid of the table example.
Grids ==
  { <<>>, ExampleGrid }
    \cup UNION { [1..r -> [1..c -> CellTexts]] : r \in 1..MaxRows, c \in 1..MaxCols }

FormatInputs ==
  { <<[type |-> "heading"], d>> : d \in PlainTexts }
    \cup { <<[type |-> "heading", level |-> l], d>> : l \in HeadingLevels, d \in PlainTexts }
    \cup { <<[type |-> "list"], d>> : d \in ListContents }
    \cup { <<[type |-> "table"], g>> : g \in Grids }
    \cup { <<[type |-> t], d>> :
             t \in {"formula", "chart_bar", "chart_pie", "image", "paragraph", "other"},
             d \in PlainTexts }
    \cup { <<[bbox |-> "b1"], d>> : d \in PlainTexts }

InitFormat ==
  /\ fpc = "input"
  /\ \E in \in FormatInputs : fRegion = in[1] /\ fData = in[2]
  /\ fOut = <<>>
  /\ OthersIdle("format")

Format ==
  /\ fpc = "input"
  /\ fOut' = _format_as_markdown(fRegion, fData)
  /\ fpc' = "done"
  /\ UNCHANGED <<fRegion, fData>>
  /\ UNCHANGED notFormat

NextFormat == Format

SpecFormat == InitFormat /\ [][NextFormat]_vars

(***************************************************************************)
(* Table resolver (ocr_enhanced_pipeline.py:180-222).  A page is a record: *)
(* image names the page image ("none" when the page has none), size tells  *)
(* whether the page has a size, ocr which engine self.ocr_model is.        *)
(***************************************************************************)
Pages ==
  { [image |-> "none", size |-> TRUE, ocr |-> "paddle"],
    [image |-> "A", size |-> FALSE, ocr |-> "paddle"],
    [image |-> "A", size |-> TRUE, ocr |-> "paddle"],
    [image |-> "B", size |-> TRUE, ocr |-> "easyocr"],
    [image |-> "A", size |-> TRUE, ocr |-> "other"] }

BBoxes == {"b1", "b2"}

\* What the OCR engine detects in the crop bbox of a page image: a list of
\* text fragments.
Detections(image, bbox) ==
  IF image = "A"
  THEN (IF bbox = "b1" THEN << <<"x">> >> ELSE <<>>)
  ELSE (IF bbox = "b1" THEN << <<"x">>, <<"y">> >> ELSE << <<"z">> >>)

\* Lines 200-219 (and 105-123): text_cells stays empty unless the engine is
\* one of the two known classes; the fragments are joined by one space.
OcrText(page, bbox) ==
  IF page.ocr \in {"paddle", "easyocr"}
  THEN Join(Detections(page.image, bbox), <<SP>>)
  ELSE <<>>

SetMax(S) == CHOOSE x \in S : \A y \in S : y <= x

\* Line 191 with rows and columns exchanged.
BlankGridTransposed(max_row, max_col) ==
  [r \in 1..(max_col + 1) |-> [c \in 1..(max_row + 1) |-> <<>>]]

\* Line 191: max_row + 1 rows of max_col + 1 empty strings.
BlankGrid(max_row, max_col) ==
  [r \in 1..(max_row + 1) |-> [c \in 1..(max_col + 1) |-> <<>>]]

\* Lines 193-220: the cells from the k-th on, written into the grid.
RECURSIVE FillCells(_, _, _, _)
FillCells(cells_data, k, table_texts, page) ==
  IF k > Len(cells_data) THEN table_texts
  ELSE LET cell == cells_data[k]
       IN  IF ~("row" \in DOMAIN cell /\ "col" \in DOMAIN cell /\ "bbox" \in DOMAIN cell)
           THEN FillCells(cells_data, k + 1, table_texts, page)
           ELSE FillCells(cells_data, k + 1,
                  [table_texts EXCEPT ![cell.row + 1][cell.col + 1] = OcrText(page, cell.bbox)],
                  page)

\* _process_table_region: max() of an empty sequence raises ValueError.
_process_table_region(region, page) ==
  IF page.image = "none" \/ ~page.size THEN [raised |-> FALSE, grid |-> <<>>]
  ELSE LET cells_data == Get(region, "cells", <<>>)
       IN  IF cells_data = <<>> THEN [raised |-> TRUE, grid |-> <<>>]
           ELSE LET max_row == SetMax({ Get(cells_data[k], "row", 0) : k \in 1..Len(cells_data) })
                    max_col == SetMax({ Get(cells_data[k], "col", 0) : k \in 1..Len(cells_data) })
                IN  [raised |-> FALSE,
                     grid |-> FillCells(cells_data, 1, BlankGrid(max_row, max_col), page)]

(***************************************************************************)
(* Table resolver as a function of the region and the page, called as      *)
(* _process_pages calls it.                                                *)
(***************************************************************************)
Restrict(f, keys) == [k \in keys |-> f[k]]

\* A cell is a dict with any of the keys row, col, bbox.
CellDicts ==
  { Restrict(full, keys) :
      full \in [row : 0..MaxIndex, col : 0..MaxIndex, bbox : BBoxes],
      keys \in SUBSET {"row", "col", "bbox"} }

CellLists == UNION { [1..n -> CellDicts] : n \in 0..MaxCells }

TableRegions ==
  { [type |-> "table", bbox |-> "b1"] }
    \cup { [type |-> "table", bbox |-> "b1", cells |-> cs] : cs \in CellLists }

InitTable ==
  /\ tpc = "input"
  /\ tRegion \in TableRegions
  /\ tPage \in Pages
  /\ tOut = <<>>
  /\ OthersIdle("table")

\* Lines 84 and 98-99: the page has an image and a size, the region loop
\* runs and resolves the table region.
ResolveTable ==
  /\ tpc = "input"
  /\ tPage.image # "none" /\ tPage.size
  /\ tOut' = _process_table_region(tRegion, tPage)
  /\ tpc' = "called"
  /\ UNCHANGED <<tRegion, tPage>>
  /\ UNCHANGED notTable

\* Line 84: without an image or a size the region loop is not entered.
SkipRegions ==
  /\ tpc = "input"
  /\ ~(tPage.image # "none" /\ tPage.size)
  /\ tpc' = "skipped"
  /\ UNCHANGED <<tRegion, tPage, tOut>>
  /\ UNCHANGED notTable

NextTable == ResolveTable \/ SkipRegions

SpecTable == InitTable /\ [][NextTable]_vars

(***************************************************************************)
(* Layout planner and page processing                                      *)
(* (ocr_enhanced_pipeline.py:72-178).  In a VLM response the text of one   *)
(* JSON object is carried as one element, the name of the region dict it  *)
(* decodes to.                                                             *)
(***************************************************************************)
RegionNames ==
  {"{H3}", "{P}", "{L}", "{T}", "{T0}", "{F}", "{I}", "{C}", "{U}", "{NT}", "{NB}"}

\* The dict each JSON object decodes to.
RegionOf(name) ==
  CASE name = "{H3}" -> [type |-> "heading", level |-> 3, bbox |-> "b1"]
    [] name = "{P}" -> [type |-> "paragraph", bbox |-> "b2"]
    [] name = "{L}" -> [type |-> "list", bbox |-> "b1"]
    [] name = "{T}" -> [type |-> "table", bbox |-> "b1",
                        cells |-> << [row |-> 0, col |-> 0, bbox |-> "b1"],
                                     [row |-> 0, col |-> 1, bbox |-> "b2"] >>]
    [] name = "{T0}" -> [type |-> "table", bbox |-> "b1"]
    [] name = "{F}" -> [type |-> "formula", bbox |-> "b1"]
    [] name = "{I}" -> [type |-> "image", bbox |-> "b2"]
    [] name = "{C}" -> [type |-> "chart_bar", bbox |-> "b1", description |-> <<"d">>]
    [] name = "{U}" -> [type |-> "footer", bbox |-> "b1"]
    [] name = "{NT}" -> [bbox |-> "b1"]
    [] name = "{NB}" -> [type |-> "paragraph"]

\* JSON's insignificant whitespace.
IsJsonSpace(c) == c \in {SP, TAB, NL, "\r"}
NotJsonSpace(c) == ~IsJsonSpace(c)

\* tokens is a comma-separated list of JSON objects (whitespace removed).
IsObjectList(tokens) ==
  \/ tokens = <<>>
  \/ /\ Len(tokens) % 2 = 1
     /\ \A k \in 1..Len(tokens) :
          IF k % 2 = 1 THEN tokens[k] \in RegionNames ELSE tokens[k] = ","

EveryOther(tokens) == [k \in 1..((Len(tokens) + 1) \div 2) |-> tokens[2 * k - 1]]

DecodeError == [ok |-> FALSE, isList |-> FALSE, items |-> <<>>]

\* json.loads on the texts of the model: an array of objects decodes to a
\* list of dicts, a lone object to a dict, a lone digit to a number, and
\* anything else raises JSONDecodeError.  Every token of these texts is one
\* element, so whitespace only ever stands between tokens, where JSON
\* ignores it.
JsonLoads(text) ==
  LET s == SelectSeq(text, NotJsonSpace)
  IN  IF Len(s) = 1 /\ s[1] \in RegionNames \cup Digit
      THEN [ok |-> TRUE, isList |-> FALSE, items |-> <<>>]
      ELSE IF Len(s) >= 2 /\ s[1] = "[" /\ s[Len(s)] = "]"
                /\ IsObjectList(SubSeq(s, 2, Len(s) - 1))
      THEN [ok |-> TRUE, isList |-> TRUE,
            items |-> EveryOther(SubSeq(s, 2, Len(s) - 1))]
      ELSE DecodeError

JsonFence == <<BQ, BQ, BQ, "j", "s", "o", "n">>

\* Lines 168-169: a response that starts, once stripped, with the json
\* fence is cut to stripped[7:-4].
StripFence(text) ==
  LET t == Strip(text)
  IN  IF StartsAt(t, 1, JsonFence) THEN SubSeq(t, 8, Len(t) - 4) ELSE text

\* Lines 166-178 without the except clause: the decode error propagates.
ParseLayoutUncaught(text) ==
  LET parsed == JsonLoads(StripFence(text))
  IN  IF ~parsed.ok THEN [raised |-> TRUE, regions |-> <<>>]
      ELSE IF parsed.isList
      THEN [raised |-> FALSE,
            regions |-> [k \in 1..Len(parsed.items) |-> RegionOf(parsed.items[k])]]
      ELSE [raised |-> FALSE, regions |-> <<>>]

\* Lines 166-178: the decoded value is returned if it is a list; a decode
\* error is caught and logged; in both other cases [] is returned.
ParseLayout(text) ==
  LET parsed == JsonLoads(StripFence(text))
  IN  IF parsed.ok /\ parsed.isList
      THEN [raised |-> FALSE,
            regions |-> [k \in 1..Len(parsed.items) |-> RegionOf(parsed.items[k])]]
      ELSE [raised |-> FALSE, regions |-> <<>>]

\* The prompts self.options.vlm_options may be configured with: the
\* system prompt of the application, or none.
ConfiguredPrompts == {"VLM_SYSTEM_PROMPT", ""}

\* Lines 141-161: the layout instruction (carried as one value).
LayoutPrompt == "Analyze the layout of the given image and return a JSON array of objects."

\* The option object the pipeline is constructed with.
SharedOptions(prompt) == [prompt |-> prompt, timeout |-> "300"]

\* Line 140 without the copy: the request options are the shared object.
NoCopy(ref) == ref

\* Line 140: model_copy(deep=True) returns a new object.
model_copy(ref) == "copy"

\* The objects in memory after the object new was created as a copy of
\* the object at ref.
Allocate(objects, new, ref) ==
  [r \in DOMAIN objects \cup {new} |-> IF r = new THEN objects[ref] ELSE objects[r]]

\* Lines 140-164: the options of the layout request are a copy of
\* self.options.vlm_options whose prompt is set to the layout instruction;
\* sent is what get_response_for_page receives.
LayoutRequest(objects) ==
  LET vlm_options == model_copy("shared")
      copied == Allocate(objects, vlm_options, "shared")
      assigned == [copied EXCEPT ![vlm_options].prompt = LayoutPrompt]
  IN  [objects |-> assigned, sent |-> assigned[vlm_options]]

\* _get_layout_from_vlm: no image, no request; vlm_response_text is the
\* text get_response_for_page returns.
_get_layout_from_vlm(page, vlm_response_text) ==
  IF page.image = "none" THEN [raised |-> FALSE, regions |-> <<>>]
  ELSE ParseLayout(vlm_response_text)

\* Line 102: what the formula model reads in the crop.
Latex(image, bbox) == IF image = "A" /\ bbox = "b1" THEN <<"E">> ELSE <<>>

\* Lines 98-121: the data resolved for a region that line 89 did not pass
\* over: the table grid, the formula model's LaTeX, or the OCR text of the
\* crop (every type other than table and formula takes the OCR branch).
ResolvedData(region, page) ==
  IF region.type = "table" THEN _process_table_region(region, page).grid
  ELSE IF region.type = "formula" THEN Latex(page.image, region.bbox)
  ELSE OcrText(page, region.bbox)

\* Lines 87-124: the markdown element of one region; skipped tells that
\* line 89 passed the region over.
ResolveRegion(region, page) ==
  LET region_type == Get(region, "type", "")
  IN  IF region_type = "" \/ "bbox" \notin DOMAIN region
      THEN [raised |-> FALSE, skipped |-> TRUE, md |-> <<>>]
      ELSE IF region_type = "table"
      THEN LET table_data == _process_table_region(region, page)
           IN  IF table_data.raised
               THEN [raised |-> TRUE, skipped |-> FALSE, md |-> <<>>]
               ELSE [raised |-> FALSE, skipped |-> FALSE,
                     md |-> _format_as_markdown(region, table_data.grid)]
      ELSE IF region_type = "formula"
      THEN [raised |-> FALSE, skipped |-> FALSE,
            md |-> _format_as_markdown(region, Latex(page.image, region.bbox))]
      ELSE [raised |-> FALSE, skipped |-> FALSE,
            md |-> _format_as_markdown(region, OcrText(page, region.bbox))]

\* Lines 200-203 and 208-211: the OCR engine is called on a crop only when
\* self.ocr_model is one of the two known classes.
OcrCalls(page) == IF page.ocr \in {"paddle", "easyocr"} THEN <<"ocr">> ELSE <<>>

\* Lines 193-215: one OCR call per cell that has row, col and bbox.
RECURSIVE CellCalls(_, _, _)
CellCalls(cells_data, k, page) ==
  IF k > Len(cells_data) THEN <<>>
  ELSE LET cell == cells_data[k]
       IN  (IF "row" \in DOMAIN cell /\ "col" \in DOMAIN cell /\ "bbox" \in DOMAIN cell
            THEN OcrCalls(page) ELSE <<>>)
           \o CellCalls(cells_data, k + 1, page)

\* Lines 87-121: the extractors called while one region is resolved: none
\* for a region passed over, the OCR engine per cell for a table (max()
\* raises before the first cell when there is none), the formula model for
\* a formula, the OCR engine on the crop for every other type.
ExtractorCalls(region, page) ==
  LET region_type == Get(region, "type", "")
  IN  IF region_type = "" \/ "bbox" \notin DOMAIN region THEN <<>>
      ELSE IF region_type = "table"
      THEN (IF page.image = "none" \/ ~page.size THEN <<>>
            ELSE CellCalls(Get(region, "cells", <<>>), 1, page))
      ELSE IF region_type = "formula" THEN <<"formula">>
      ELSE OcrCalls(page)

\* Lines 86-127: the extractor calls of the region loop from the k-th
\* region on, each with the index of its region; the loop ends at a region
\* that raises.
RECURSIVE PageCalls(_, _, _)
PageCalls(layout_regions, k, page) ==
  IF k > Len(layout_regions) THEN <<>>
  ELSE LET made == ExtractorCalls(layout_regions[k], page)
           here == [j \in 1..Len(made) |-> [region |-> k, extractor |-> made[j]]]
       IN  IF ResolveRegion(layout_regions[k], page).raised THEN here
           ELSE here \o PageCalls(layout_regions, k + 1, page)

\* Lines 86-127 with line 127 inserting the element at the head of the
\* list.
RECURSIVE ProcessRegionsPrepending(_, _, _, _)
ProcessRegionsPrepending(layout_regions, k, elements, page) ==
  IF k > Len(layout_regions) THEN [raised |-> FALSE, elements |-> elements]
  ELSE LET r == ResolveRegion(layout_regions[k], page)
       IN  IF r.raised THEN [raised |-> TRUE, elements |-> elements]
           ELSE ProcessRegionsPrepending(layout_regions, k + 1,
                  IF r.md # <<>> THEN <<r.md>> \o elements ELSE elements, page)

\* Lines 86-127: the regions from the k-th on; elements is
\* page_markdown_elements so far.
RECURSIVE ProcessRegions(_, _, _, _)
ProcessRegions(layout_regions, k, elements, page) ==
  IF k > Len(layout_regions) THEN [raised |-> FALSE, elements |-> elements]
  ELSE LET r == ResolveRegion(layout_regions[k], page)
       IN  IF r.raised THEN [raised |-> TRUE, elements |-> elements]
           ELSE ProcessRegions(layout_regions, k + 1,
                  IF r.md # <<>> THEN Append(elements, r.md) ELSE elements, page)

(***************************************************************************)
(* _process_pages on one page, the VLM's answer drawn from a bounded set.  *)
(***************************************************************************)
NotJson == <<"n", "o", "t", SP, "j", "s", "o", "n">>

RegionLists == UNION { [1..n -> RegionNames] : n \in 0..MaxRegions }

\* The text of a JSON array of the objects named.
ArrayText(names) == <<"[">> \o Join([k \in 1..Len(names) |-> <<names[k]>>], <<",", SP>>) \o <<"]">>

\* What the VLM may put between the fences: arrays of region objects, text
\* that is no JSON, a lone object, a number, nothing, a cut-off array.
Bodies ==
  { ArrayText(names) : names \in RegionLists }
    \cup { NotJson, <<"{P}">>, <<"1">>, <<>>, <<"[", "{P}", ",">> }

\* A body as it is, padded with whitespace, or inside a code fence: with
\* the json tag and newlines, with the tag and no newline before the
\* closing fence (or no newline at all), and with no tag.
Wrapped(body) ==
  { body,
    <<SP>> \o body \o <<NL>>,
    JsonFence \o <<NL>> \o body \o <<NL>> \o Fence,
    JsonFence \o <<NL>> \o body \o Fence,
    JsonFence \o body \o Fence,
    Fence \o <<NL>> \o body \o <<NL>> \o Fence }

Responses == UNION { Wrapped(body) : body \in Bodies }

InitPage ==
  /\ gpc = "input"
  /\ gPage \in Pages
  /\ gResponse \in Responses
  /\ gLayout = <<>> /\ gText = <<>> /\ gCalls = <<>>
  /\ gConfigured \in ConfiguredPrompts
  /\ gOptions = [r \in {"shared"} |-> SharedOptions(gConfigured)]
  /\ gRequests = <<>>
  /\ OthersIdle("page")

\* Lines 76-131 for one page: the layout request, the region loop, the
\* store of the joined elements (page.predictions.vlm_response is there to
\* take the text).
ProcessPage ==
  /\ gpc = "input"
  /\ LET layout == _get_layout_from_vlm(gPage, gResponse)
         out == IF gPage.image # "none" /\ gPage.size
                THEN ProcessRegions(layout.regions, 1, <<>>, gPage)
                ELSE [raised |-> FALSE, elements |-> <<>>]
     IN  IF layout.raised
         THEN gpc' = "raised" /\ UNCHANGED <<gLayout, gText, gCalls>>
         ELSE /\ gLayout' = layout.regions
              /\ gCalls' = IF gPage.image # "none" /\ gPage.size
                           THEN PageCalls(layout.regions, 1, gPage)
                           ELSE <<>>
              /\ IF out.raised
                 THEN gpc' = "raised" /\ UNCHANGED gText
                 ELSE gpc' = "done" /\ gText' = Join(out.elements, <<NL, NL>>)
  /\ IF gPage.image = "none"
     THEN UNCHANGED <<gOptions, gRequests>>
     ELSE /\ gOptions' = LayoutRequest(gOptions).objects
          /\ gRequests' = Append(gRequests, LayoutRequest(gOptions).sent)
  /\ UNCHANGED <<gPage, gResponse, gConfigured>>
  /\ UNCHANGED notPage

NextPage == ProcessPage

SpecPage == InitPage /\ [][NextPage]_vars

(***************************************************************************)
(* Command line entry point (main.py:12-70, docling_setup.py:27-82,        *)
(* config.py).  main calls process_pdf_batch with the default batch size,  *)
(* so the actions of the batch orchestrator run between its two steps.     *)
(***************************************************************************)
\* config.py line 10, the default of process_pdf_batch's batch_size.
BATCH_SIZE == 1

\* docling_setup.py line 29: the placeholder that counts as no key.
KeyPlaceholder == "YOUR_OPENROUTER_API_KEY_HERE"

ApiKeys == {"", KeyPlaceholder, "sk-or-v1-0"}

\* create_vlm_options (docling_setup.py:27-55): None without a key.
create_vlm_options(key) ==
  IF key = "" \/ key = KeyPlaceholder THEN "None" ELSE "ApiVlmOptions"

\* setup_document_converter (docling_setup.py:57-82).
setup_document_converter(vlm_opts) ==
  IF vlm_opts = "None" THEN "None" ELSE "DocumentConverter"

\* main.py line 61 with the test left out.
WritesAlways(rs) == TRUE

\* main.py line 61: if results.
WritesOutput(rs) == rs # <<>>

InitMain ==
  /\ mpc = "start"
  /\ mArg \in BOOLEAN /\ mDirHasPdf \in BOOLEAN /\ mInputExists \in BOOLEAN
  /\ mApiKey \in ApiKeys
  /\ mOutDir = FALSE /\ mCalled = 0 /\ mWritten = FALSE /\ mFile = <<>>
  /\ bpc = "idle" /\ converterOk = FALSE /\ pathExists = FALSE
  /\ pdfOpens \in BOOLEAN /\ pageCount \in 0..MaxPages
  /\ batchSize = BATCH_SIZE
  /\ start = 0 /\ results = <<>> /\ windows = <<>> /\ outcomes = <<>>
  /\ converts = <<>> /\ unclosed = 0
  /\ PostIdle /\ FormatIdle /\ TableIdle /\ PageIdle /\ AssembleIdle

\* main.py lines 14-58: the input path is chosen and checked, OUTPUT_DIR is
\* created, the options and the converter are set up; each failed check
\* returns, otherwise process_pdf_batch is called with the path, the
\* converter and the default batch size.
MainSetup ==
  /\ mpc = "start"
  /\ LET chosen == mArg \/ mDirHasPdf
         vlm_options == create_vlm_options(mApiKey)
         converter == setup_document_converter(vlm_options)
     IN  IF ~chosen \/ ~mInputExists
         THEN /\ mpc' = "returned"
              /\ UNCHANGED <<mOutDir, mCalled, bpc, converterOk, pathExists>>
         ELSE IF vlm_options = "None" \/ converter = "None"
         THEN /\ mpc' = "returned"
              /\ mOutDir' = TRUE
              /\ UNCHANGED <<mCalled, bpc, converterOk, pathExists>>
         ELSE /\ mpc' = "calling"
              /\ mOutDir' = TRUE
              /\ mCalled' = mCalled + 1
              /\ bpc' = "start"
              /\ converterOk' = TRUE
              /\ pathExists' = mInputExists
  /\ UNCHANGED <<mArg, mDirHasPdf, mInputExists, mApiKey, mWritten, mFile>>
  /\ UNCHANGED <<pdfOpens, pageCount, batchSize, start, results, windows, outcomes,
                 converts, unclosed>>
  /\ UNCHANGED notMain

\* main.py lines 61-70: process_pdf_batch has returned; the results joined
\* by blank lines are written to the output file if there is any.
MainFinish ==
  /\ mpc = "calling"
  /\ bpc = "done"
  /\ IF WritesOutput(results)
     THEN mWritten' = TRUE /\ mFile' = Join(results, <<NL, NL>>)
     ELSE UNCHANGED <<mWritten, mFile>>
  /\ mpc' = "returned"
  /\ UNCHANGED <<mArg, mDirHasPdf, mInputExists, mApiKey, mOutDir, mCalled>>
  /\ UNCHANGED batchVars
  /\ UNCHANGED notMain

NextMain == MainSetup \/ Enter \/ Iterate \/ Return \/ MainFinish

SpecMain == InitMain /\ [][NextMain]_vars

(***************************************************************************)
(* Document assembly (ocr_enhanced_pipeline.py:255-284).  A page of the    *)
(* conversion result is a record: has_response tells whether               *)
(* page.predictions.vlm_response is set, text is its text, image names the *)
(* page image ("none" when there is none) and size the page size.          *)
(***************************************************************************)
PageTexts == { <<>>, <<"a">>, <<"b">> }

\* A page image is rendered by the backend that also gave the page its
\* size, so a page with an image has a size.
AssemblyPages ==
  { pg \in [has_response : BOOLEAN, text : PageTexts,
            image : {"none", "A", "B"}, size : {"none", "S"}] :
      /\ ~pg.has_response => pg.text = <<>>
      /\ pg.image # "none" => pg.size = "S" }

\* Line 257: the separator put between the pages' texts.
PageRule == <<NL, NL, "-", "-", "-", NL, NL>>

HasResponse(pg) == pg.has_response

\* Lines 257-259: the texts of the pages that have a VLM response, in page
\* order, joined by the separator.
AllMarkdown(pages) ==
  LET with == SelectSeq(pages, HasResponse)
  IN  Join([k \in 1..Len(with) |-> with[k].text], PageRule)

\* Line 278 with enumerate's index taken as the page number.
PageNoZeroBased(pg_idx) == pg_idx

\* Line 278: page_no = pg_idx + 1.
PageNo(pg_idx) == pg_idx + 1

\* DoclingDocument.add_page: the page item is stored under its number.
AddPage(doc_pages, page_no, size, image) ==
  [n \in DOMAIN doc_pages \cup {page_no} |->
     IF n = page_no THEN [size |-> size, image |-> image] ELSE doc_pages[n]]

\* Lines 275-281: the loop over enumerate(conv_res.pages) from index pg_idx
\* on; a page without image is passed over.
RECURSIVE Reattach(_, _, _)
Reattach(pages, pg_idx, doc_pages) ==
  IF pg_idx >= Len(pages) THEN doc_pages
  ELSE LET page == pages[pg_idx + 1]
       IN  Reattach(pages, pg_idx + 1,
             IF page.image # "none"
             THEN AddPage(doc_pages, PageNo(pg_idx), page.size, page.image)
             ELSE doc_pages)

InitAssemble ==
  /\ apc = "input"
  /\ aPages \in UNION { [1..n -> AssemblyPages] : n \in 0..MaxDocPages }
  /\ aMarkdown = <<>> /\ aDocPages = <<>>
  /\ OthersIdle("assemble")

\* _assemble_document: the joined markdown is converted by the markdown
\* backend into the final document, then the pages are added back.
Assemble ==
  /\ apc = "input"
  /\ aMarkdown' = AllMarkdown(aPages)
  /\ aDocPages' = Reattach(aPages, 0, <<>>)
  /\ apc' = "done"
  /\ UNCHANGED aPages
  /\ UNCHANGED notAssemble

NextAssemble == Assemble

SpecAssemble == InitAssemble /\ [][NextAssemble]_vars

(***************************************************************************)
(* Properties of the batch orchestrator (SpecBatch).                       *)
(***************************************************************************)
RECURSIVE Flatten(_)
Flatten(ws) == IF ws = <<>> THEN <<>> ELSE ws[1] \o Flatten(Tail(ws))

Loadable == converterOk /\ pathExists /\ pdfOpens

CeilDiv(n, b) == (n + b - 1) \div b

Mentions(text, n) == \E i \in 1..Len(text) : text[i] = ToString(n)

IsErrorBlock(text) ==
  /\ Len(text) >= Len(Banner) + Len(BannerEnd)
  /\ StartsAt(text, 1, Banner)
  /\ StartsAt(text, Len(text) - Len(BannerEnd) + 1, BannerEnd)

\* C1: the page-index windows handed to _process_batch are consecutive runs
\* of batchSize indices, only the last one possibly shorter, and together
\* they list 0, 1, ..., pageCount-1 once each: no index skipped, none twice.
C1_BatchesPartition ==
  LET flat == Flatten(windows)
  IN  /\ \A i \in 1..Len(flat) : flat[i] = i - 1
      /\ Len(flat) <= pageCount
      /\ \A j \in 1..Len(windows) :
           /\ 1 <= Len(windows[j]) /\ Len(windows[j]) <= batchSize
           /\ Len(windows[j]) < batchSize =>
                (j = Len(windows) /\ windows[j][Len(windows[j])] = pageCount - 1)
      /\ (bpc = "done" /\ Loadable) => Len(flat) = pageCount

\* A run over 4 pages in windows of 3 has ended: the last window is short.
C1_Witness ==
  /\ bpc = "done" /\ Loadable
  /\ pageCount = 4 /\ batchSize = 3
  /\ windows = << <<0, 1, 2>>, <<3>> >>

\* C2: a failed batch (non-SUCCESS status, or an exception in extraction or
\* conversion) never makes process_pdf_batch raise; its result is an error
\* block, and every other batch is still attempted and gives the result its
\* own conversion determines, whatever happened to the batches before it.
C2_FailureIsolated ==
  /\ bpc # "raised"
  /\ Len(results) = Len(outcomes)
  /\ \A k \in 1..Len(results) :
       IF Failed(outcomes[k])
       THEN IsErrorBlock(results[k])
       ELSE results[k] = postprocess_markdown(outcomes[k].md)
  /\ (bpc = "done" /\ Loadable) => Len(results) = CeilDiv(pageCount, batchSize)

\* A finished run in which a batch raised and a later one succeeded.
C2_Witness ==
  /\ bpc = "done"
  /\ \E k, j \in 1..Len(results) :
       /\ k < j
       /\ outcomes[k].raisedAt = "convert"
       /\ ~Failed(outcomes[j])
       /\ results[j] = <<"-", SP, "a">>

\* C3: the error block of a failed batch names the batch's 1-based page
\* range, its first and its last page number.
C3_ErrorBlockNamesPages ==
  \A k \in 1..Len(results) :
    Failed(outcomes[k]) =>
      /\ Mentions(results[k], windows[k][1] + 1)
      /\ Mentions(results[k], windows[k][Len(windows[k])] + 1)

\* C4: a loadable document of n pages gives exactly ceil(n/b) results, and
\* the i-th is the result of the window that starts at page index (i-1)*b.
C4_ResultsInPageOrder ==
  (bpc = "done" /\ Loadable) =>
    /\ Len(results) = CeilDiv(pageCount, batchSize)
    /\ Len(windows) = Len(results)
    /\ \A i \in 1..Len(results) :
         /\ windows[i][1] = (i - 1) * batchSize
         /\ results[i] = _process_batch(windows[i], i, outcomes[i]).value

\* A finished run of three batches: success, failure, success, with
\* different markdown in the first and the last.
C4_Witness ==
  /\ bpc = "done" /\ Loadable
  /\ Len(results) = 3
  /\ ~Failed(outcomes[1]) /\ Failed(outcomes[2]) /\ ~Failed(outcomes[3])
  /\ results[1] # results[3]

(***************************************************************************)
(* Properties of the postprocessor (SpecPost).                             *)
(***************************************************************************)
\* C5: postprocess_markdown is idempotent: applied to its own output it
\* returns that output.
C5_Idempotent == ppc = "twice" => ppTwice = ppOnce

(***************************************************************************)
(* Properties of the markdown formatter (SpecFormat).                      *)
(***************************************************************************)
Formatted(type) == fpc = "done" /\ Get(fRegion, "type", "paragraph") = type

\* The lines of a text: a newline ends a line, so a final newline opens no
\* further line (str.splitlines).
SplitLines(s) ==
  LET ps == Split(s, <<NL>>)
  IN  IF ps[Len(ps)] = <<>> THEN SubSeq(ps, 1, Len(ps) - 1) ELSE ps

\* line is the pipe-delimited markdown table row of the cells of row.
IsPipeRow(line, row) ==
  /\ Len(line) >= 4
  /\ StartsAt(line, 1, <<"|", SP>>)
  /\ StartsAt(line, Len(line) - 1, <<SP, "|">>)
  /\ Split(SubSeq(line, 3, Len(line) - 2), <<SP, "|", SP>>) = row

\* C7: a list region formats to one "- " bullet per non-blank line of the
\* content, the bullets separated by newline characters, blank lines
\* dropped ("a\nb\n\n" gives "- a\n- b").
C7_ListBullets == Formatted("list") => fOut = Bullets(fData, <<NL>>)

\* C8: a table region with a non-empty grid of r rows and c columns formats
\* to exactly r+1 lines: the header from grid row 0, a separator row of
\* exactly c '---' entries, then one line per remaining row in grid order;
\* the empty grid formats to the empty fragment.
C8_TableLines ==
  Formatted("table") =>
    IF fData = <<>> THEN fOut = <<>>
    ELSE LET ls == SplitLines(fOut)
             r == Len(fData)
             c == Len(fData[1])
         IN  /\ Len(ls) = r + 1
             /\ IsPipeRow(ls[1], fData[1])
             /\ IsPipeRow(ls[2], [k \in 1..c |-> Dashes])
             /\ \A k \in 2..r : IsPipeRow(ls[k + 1], fData[k])

\* The grid of the table example has been formatted to its three lines.
C8_Witness ==
  /\ Formatted("table")
  /\ fData = ExampleGrid
  /\ fOut = <<"|", SP, "H", "1", SP, "|", SP, "H", "2", SP, "|", NL,
              "|", SP, "-", "-", "-", SP, "|", SP, "-", "-", "-", SP, "|", NL,
              "|", SP, "a", SP, "|", SP, "b", SP, "|">>

\* C9: a heading region with level L in 1..6 formats to L '#' characters,
\* one space, then the content; an absent level counts as level 1.
C9_HeadingLevel ==
  Formatted("heading") =>
    LET L == IF "level" \in DOMAIN fRegion THEN fRegion.level ELSE 1
    IN  /\ Len(fOut) = L + 1 + Len(fData)
        /\ \A k \in 1..L : fOut[k] = "#"
        /\ fOut[L + 1] = SP
        /\ Drop(fOut, L + 1) = fData

\* Level 3 with content 'Intro' has been formatted to '### Intro'.
C9_Witness ==
  /\ Formatted("heading")
  /\ fRegion = [type |-> "heading", level |-> 3]
  /\ fData = Intro
  /\ fOut = <<"#", "#", "#", SP, "I", "n", "t", "r", "o">>

(***************************************************************************)
(* Properties of the table resolver (SpecTable).                           *)
(***************************************************************************)
Declares(cells, r, c) ==
  \E k \in 1..Len(cells) :
    /\ "row" \in DOMAIN cells[k] /\ cells[k].row = r
    /\ "col" \in DOMAIN cells[k] /\ cells[k].col = c

\* C6: for a table region whose cells have maximum row R and maximum column
\* C (a cell without the key counting as 0, as line 189 counts it),
\* _process_table_region returns a grid of exactly R+1 rows, each of
\* exactly C+1 columns, and every position no cell declares holds the empty
\* string.
C6_GridRectangular ==
  (tpc = "called" /\ Get(tRegion, "cells", <<>>) # <<>>) =>
    LET cells == tRegion.cells
        R == SetMax({ Get(cells[k], "row", 0) : k \in 1..Len(cells) })
        C == SetMax({ Get(cells[k], "col", 0) : k \in 1..Len(cells) })
        grid == tOut.grid
    IN  /\ ~tOut.raised
        /\ Len(grid) = R + 1
        /\ \A r \in 1..Len(grid) : Len(grid[r]) = C + 1
        /\ \A r \in 0..R, c \in 0..C :
             ~Declares(cells, r, c) => grid[r + 1][c + 1] = <<>>

\* A sparse table was resolved: cells at (0,0) and (1,1) only, in a 2 x 2
\* grid whose other two positions are empty.
C6_Witness ==
  /\ tpc = "called"
  /\ tPage = [image |-> "B", size |-> TRUE, ocr |-> "easyocr"]
  /\ Get(tRegion, "cells", <<>>) = << [row |-> 0, col |-> 0, bbox |-> "b1"],
                                      [row |-> 1, col |-> 1, bbox |-> "b2"] >>
  /\ tOut.grid = << << <<"x", SP, "y">>, <<>> >>, << <<>>, <<"z">> >> >>

(***************************************************************************)
(* Properties of the layout planner and page processing (SpecPage).        *)
(***************************************************************************)
\* C10: when the text handed to the JSON decoder (the VLM response, json
\* fence cut off) does not decode, or decodes to a value that is not an
\* array, _get_layout_from_vlm returns the empty region list, the page's
\* markdown body is empty, and no exception leaves the page processing.
C10_LayoutDegrades ==
  LET parsed == JsonLoads(StripFence(gResponse))
  IN  (gpc # "input" /\ (~parsed.ok \/ ~parsed.isList)) =>
        /\ gpc = "done"
        /\ gLayout = <<>>
        /\ gText = <<>>

\* A page with an image and a size whose VLM answered 'not json' has been
\* processed: no region, empty markdown, no exception.
C10_Witness ==
  /\ gpc = "done"
  /\ gPage = [image |-> "A", size |-> TRUE, ocr |-> "paddle"]
  /\ gResponse = NotJson
  /\ gLayout = <<>>
  /\ gText = <<>>

NonEmpty(t) == t # <<>>

\* The markdown element of each region of the layout, in layout order.
Fragments(layout, page) ==
  [k \in 1..Len(layout) |-> ResolveRegion(layout[k], page).md]

\* C11: the markdown stored for a processed page is exactly the non-empty
\* fragments of its regions, in the order the layout planner returned the
\* regions, joined by a blank line; a page without image or size, whose
\* regions are not resolved, stores the empty text.
C11_FragmentsInLayoutOrder ==
  gpc = "done" =>
    gText = IF gPage.image # "none" /\ gPage.size
            THEN Join(SelectSeq(Fragments(gLayout, gPage), NonEmpty), <<NL, NL>>)
            ELSE <<>>

\* A page whose layout is a paragraph followed by a heading has been
\* processed: the paragraph's text comes first, a blank line, the heading.
C11_Witness ==
  /\ gpc = "done"
  /\ gPage = [image |-> "B", size |-> TRUE, ocr |-> "easyocr"]
  /\ gLayout = <<RegionOf("{P}"), RegionOf("{H3}")>>
  /\ gText = <<"z", NL, NL, "#", "#", "#", SP, "x", SP, "y">>

\* Each region of the layout with its markdown element and whether its
\* resolved content is empty (a region passed over has none).
Resolved(layout, page) ==
  [k \in 1..Len(layout) |->
     LET r == ResolveRegion(layout[k], page)
     IN  [md |-> r.md,
          empty |-> IF r.skipped \/ r.raised THEN TRUE
                    ELSE ResolvedData(layout[k], page) = <<>>]]

HasContent(r) == ~r.empty

\* C12: a region whose resolved content is empty contributes no fragment:
\* the markdown stored for a processed page is made of the fragments of the
\* regions with non-empty content only (no empty heading, math fence or
\* image reference is appended).
C12_EmptyContentNoFragment ==
  (gpc = "done" /\ gPage.image # "none" /\ gPage.size) =>
    LET kept == SelectSeq(Resolved(gLayout, gPage), HasContent)
    IN  gText = Join([k \in 1..Len(kept) |-> kept[k].md], <<NL, NL>>)

\* The region types the layout planner is asked for.
PlannerTypes ==
  {"heading", "paragraph", "list", "table", "formula",
   "chart_bar", "chart_pie", "image", "other"}

\* A region with a known type and a bounding box of four numbers.
IsValidRegion(region) ==
  /\ Get(region, "type", "") \in PlannerTypes
  /\ Get(region, "bbox", "") \in BBoxes

\* C13: a region whose type is missing or unknown, or whose bounding box is
\* missing, is skipped: no extractor is called for it, it adds no fragment
\* and raises nothing, and the other regions are processed as if it were
\* not in the layout.
C13_InvalidRegionsSkipped ==
  (gpc # "input" /\ gPage.image # "none" /\ gPage.size) =>
    LET valid == SelectSeq(gLayout, IsValidRegion)
    IN  /\ \A j \in 1..Len(gCalls) : IsValidRegion(gLayout[gCalls[j].region])
        /\ gpc = "done" =>
              gText = Join(SelectSeq(Fragments(valid, gPage), NonEmpty), <<NL, NL>>)
        /\ gpc = "raised" =>
              \E k \in 1..Len(valid) : ResolveRegion(valid[k], gPage).raised

VisualTypes == {"chart_bar", "chart_pie", "image"}

IsVisual(region) ==
  Get(region, "type", "") \in VisualTypes /\ "bbox" \in DOMAIN region

\* The image reference whose alt text is the description embedded in the
\* region ('' when there is none).
ImageReference(region) ==
  <<"!", "[">> \o Get(region, "description", <<>>) \o <<"]">>

\* C14: for a chart_bar, chart_pie or image region neither the OCR engine
\* nor the formula model is called, and its fragment in the page markdown is
\* the image reference whose alt text is the description the layout planner
\* embedded in the region.
C14_VisualNoExtraction ==
  (gpc = "done" /\ gPage.image # "none" /\ gPage.size) =>
    /\ \A j \in 1..Len(gCalls) : ~IsVisual(gLayout[gCalls[j].region])
    /\ gText = Join(SelectSeq([k \in 1..Len(gLayout) |->
                                 IF IsVisual(gLayout[k])
                                 THEN ImageReference(gLayout[k])
                                 ELSE ResolveRegion(gLayout[k], gPage).md],
                              NonEmpty),
                    <<NL, NL>>)

\* A body inside a fenced code block: opening fence with or without the
\* json tag, closing fence with or without a newline before it.
Fenced(body) ==
  { JsonFence \o <<NL>> \o body \o <<NL>> \o Fence,
    JsonFence \o <<NL>> \o body \o Fence,
    Fence \o <<NL>> \o body \o <<NL>> \o Fence }

\* C15: when the VLM's answer is a JSON array of regions inside a fenced
\* code block, _get_layout_from_vlm returns exactly the regions of the
\* array.
C15_FencedArrayParsed ==
  (gpc # "input" /\ gPage.image # "none") =>
    \A names \in RegionLists :
      gResponse \in Fenced(ArrayText(names)) =>
        gLayout = [k \in 1..Len(names) |-> RegionOf(names[k])]

(***************************************************************************)
(* Properties of the postprocessor (SpecPost), continued.                  *)
(***************************************************************************)
\* t has a substring of the form data:image/<type>;base64,<payload>.
HasDataUri(t) == \E i \in 1..Len(t) : Base64MatchLen(t, i) > 0

\* C16: the text postprocess_markdown returns contains no substring of the
\* form data:image/<type>;base64,<payload>: none is left by the replacement
\* and none is created by the later steps.
C16_NoDataUri ==
  ppc \in {"once", "twice"} => ~HasDataUri(ppOnce)

(***************************************************************************)
(* Properties of the command line entry point (SpecMain).                  *)
(***************************************************************************)
NoKey(key) == key = "" \/ key = KeyPlaceholder

\* C17: main writes the output file only after process_pdf_batch ran and
\* returned at least one batch result.  Without an API key
\* process_pdf_batch is never called and no file is written; when the
\* input path does not exist main returns at once, and when
\* process_pdf_batch returned the empty list main returns, in both cases
\* without a file and without an exception.
C17_FileOnlyFromResults ==
  /\ mWritten =>
        mCalled = 1 /\ bpc = "done" /\ results # <<>>
          /\ mFile = Join(results, <<NL, NL>>)
  /\ NoKey(mApiKey) => mCalled = 0 /\ ~mWritten
  /\ (~mInputExists /\ mpc # "start") =>
        mpc = "returned" /\ mCalled = 0 /\ ~mWritten
  /\ (mpc = "returned" /\ mCalled = 1 /\ results = <<>>) => ~mWritten

\* main has returned after process_pdf_batch was called on a PDF that does
\* not open and returned the empty list: no file was written.
C17_Witness ==
  /\ mpc = "returned"
  /\ mCalled = 1
  /\ ~pdfOpens
  /\ results = <<>>
  /\ ~mWritten

(***************************************************************************)
(* Properties of the batch orchestrator (SpecBatch), continued.            *)
(***************************************************************************)
\* C18: on every exit path of _process_batch the temporary sub-document
\* built for the batch has been closed when the batch's result is
\* returned: no returned call leaves one without close().
C18_TempAlwaysClosed == unclosed = 0

\* The calls of converter.convert come in ascending batch order, and the
\* call for a batch is made when exactly the results of all earlier batches
\* are appended (the loop calls _process_batch synchronously, so the call
\* for the next batch cannot start before).
ConvertsInOrder ==
  /\ \A i, j \in 1..Len(converts) : i < j => converts[i].batch <= converts[j].batch
  /\ \A j \in 1..Len(converts) : converts[j].appended = converts[j].batch - 1

CallsFor(k) == Cardinality({ j \in 1..Len(converts) : converts[j].batch = k })

\* C19 as stated: the batches are processed one at a time in ascending
\* order and converter.convert is invoked exactly once for every batch
\* processed.
C19_ConvertOncePerBatch ==
  /\ ConvertsInOrder
  /\ bpc \in {"loop", "done"} =>
        \A k \in 1..Len(outcomes) : CallsFor(k) = 1

\* C19 amended: converter.convert is invoked at most once per batch (no
\* retry): exactly once when the sub-document extraction succeeded, not at
\* all when it raised; the calls are in ascending batch order, each made
\* after the results of all earlier batches were appended.
C19_ConvertAtMostOnce ==
  /\ ConvertsInOrder
  /\ bpc \in {"loop", "done"} =>
        \A k \in 1..Len(outcomes) :
          CallsFor(k) = (IF outcomes[k].raisedAt = "import_pages" THEN 0 ELSE 1)

\* Two batches were processed: the extraction of the first raised, so
\* convert was called for the second only, with one result appended.
C19_Witness ==
  /\ bpc = "done"
  /\ Len(outcomes) = 2
  /\ outcomes[1].raisedAt = "import_pages"
  /\ outcomes[2].status[1] = "FAILURE"
  /\ converts = << [batch |-> 2, appended |-> 1] >>

(***************************************************************************)
(* Properties of the layout request (SpecPage).                            *)
(***************************************************************************)
\* C20: the layout request is made with options that are a copy of the
\* shared VLM options with the prompt replaced by the layout instruction,
\* and the shared options, prompt included, are what they were configured
\* to be after _get_layout_from_vlm returned, whether the answer parsed or
\* not; a page without image makes no request.
C20_SharedOptionsUnchanged ==
  gpc \in {"input", "done", "raised"} =>
    /\ gOptions["shared"] = SharedOptions(gConfigured)
    /\ (gpc # "input" /\ gPage.image # "none") =>
          gRequests = << [SharedOptions(gConfigured) EXCEPT !.prompt = LayoutPrompt] >>
    /\ (gpc # "input" /\ gPage.image = "none") => gRequests = <<>>

\* The layout of a page was requested and the answer did not parse: the
\* request carried the layout instruction, the shared options still carry
\* the configured system prompt.
C20_Witness ==
  /\ gpc = "done"
  /\ gPage.image = "A"
  /\ gResponse = NotJson
  /\ gConfigured = "VLM_SYSTEM_PROMPT"
  /\ gOptions["shared"].prompt = "VLM_SYSTEM_PROMPT"
  /\ Len(gRequests) = 1 /\ gRequests[1].prompt = LayoutPrompt

(***************************************************************************)
(* Properties of the region loop (SpecPage), continued.                    *)
(***************************************************************************)
\* C21: a failure while one region is resolved does not leave the page
\* processing: every page with image and size is processed to the end, a
\* table region without cells adds an empty fragment, and the stored
\* markdown is made of the fragments of the other regions.
C21_RegionFailureContained ==
  (gpc # "input" /\ gPage.image # "none" /\ gPage.size) =>
    /\ gpc = "done"
    /\ gText = Join(SelectSeq(Fragments(gLayout, gPage), NonEmpty), <<NL, NL>>)

(***************************************************************************)
(* Properties of the document assembly (SpecAssemble).                     *)
(***************************************************************************)
\* The texts of the pages that have a markdown body, in page order.
PageBodies(pages) ==
  LET with == SelectSeq(pages, HasResponse)
  IN  [k \in 1..Len(with) |-> with[k].text]

\* C22: the assembled markdown is the pages' bodies in page order with the
\* '---' rule between consecutive ones (splitting it at the rule gives the
\* bodies back), and the final document has, under number index+1, exactly
\* the pages that have an image, each with its own size and image; pages
\* without image are left out.
C22_AssembledInPageOrder ==
  apc = "done" =>
        /\ IF PageBodies(aPages) = <<>> THEN aMarkdown = <<>>
           ELSE Split(aMarkdown, PageRule) = PageBodies(aPages)
        /\ DOMAIN aDocPages = { k \in 1..Len(aPages) : aPages[k].image # "none" }
        /\ \A k \in DOMAIN aDocPages :
              aDocPages[k] = [size |-> aPages[k].size, image |-> aPages[k].image]

\* Three pages were assembled, the second without image: the bodies are
\* joined by the rule and the images sit under the numbers 1 and 3.
C22_Witness ==
  /\ apc = "done"
  /\ Len(aPages) = 3
  /\ aPages[1].image = "A" /\ aPages[2].image = "none" /\ aPages[3].image = "B"
  /\ aMarkdown = <<"a">> \o PageRule \o <<"b">> \o PageRule \o <<"a">>
  /\ DOMAIN aDocPages = {1, 3}
  /\ aDocPages[3].image = "B"

(***************************************************************************)
(* Properties of the postprocessor (SpecPost): the math rule.              *)
(***************************************************************************)
HasOperator(line) == Contains(line, "+") \/ Contains(line, "×")

\* line, surrounding whitespace ignored, begins and ends with '$'.
IsWrapped(line) ==
  LET s == Strip(line)
  IN  s # <<>> /\ s[1] = "$" /\ s[Len(s)] = "$"

Dollars(t) == Cardinality({ i \in 1..Len(t) : t[i] = "$" })

\* The lines the math rule looks at: those of the text after the data URI
\* and bullet rules.
RuleLines(content) == Split(SubBullet(SubBase64(content)), <<NL>>)

\* C23: in the text postprocess_markdown returns every line that contains
\* '+' or the multiplication sign begins and ends with '$' (surrounding
\* whitespace ignored); and the only '$' the function adds are the two
\* around each line that has such a character and is not yet wrapped: a
\* line already wrapped and a line with neither character get none.
C23_OperatorLinesWrapped ==
  ppc \in {"once", "twice"} =>
    LET out == Split(ppOnce, <<NL>>)
        ls == RuleLines(ppIn)
        wrapped == { k \in 1..Len(ls) : HasOperator(ls[k]) /\ ~IsWrapped(ls[k]) }
    IN  /\ \A k \in 1..Len(out) : HasOperator(out[k]) => IsWrapped(out[k])
        /\ Dollars(ppOnce) = Dollars(Join(ls, <<NL>>)) + 2 * Cardinality(wrapped)

\* The text 'a+' was processed: the line, not wrapped, is wrapped whole.
C23_Witness ==
  /\ ppc = "once"
  /\ ppIn = <<"a", "+">>
  /\ ppOnce = <<"$", "a", "+", "$">>

=============================================================================
